---- MODULE Spec2Model ----
(***************************************************************************)
(* Model of the three conversion scripts of the repository:                *)
(*   - the transparency maker   (src/transparency-maker.js, lines 1-187)   *)
(*   - the GIF creator          (src/transparency-maker.js, lines 188-458) *)
(*   - the transparent GIF creator (src/transparent-gif-creator.js)        *)
(* File names are strings; the regular expression, path.extname and        *)
(* parseInt are computed character by character.  One action is one        *)
(* run-to-completion segment of JavaScript: module load, main up to its    *)
(* first suspension, and each exec callback together with everything the   *)
(* callback's continuation runs before the next subprocess is started.     *)
(***************************************************************************)
EXTENDS Integers, Sequences, FiniteSets, TLC

VARIABLES
    pipeline,        \* which script runs: "transparency", "gif", "transparentGif"
    inputExists,     \* fs.existsSync(texturesDir / transparentDir)
    outputExists,    \* fs.existsSync(outputDir)
    listing,         \* fs.readdirSync(input directory), in the order the OS returns it
    toolsInstalled,  \* the environment: some probe step can succeed
    pc,              \* where the process is
    inflight,        \* subprocesses started by exec whose callback has not fired yet
    imageMagickPath, \* global.imageMagickPath
    pathWrites,      \* history: number of assignments to global.imageMagickPath
    tool,            \* the value checkDependencies resolved to
    resolves,        \* history: number of calls of the probe promise's resolve
    probeLog,        \* history: the probe steps executed, with their outcome
    scans,           \* history: number of readdirSync calls
    grouped,         \* the result of the grouping function (threw / keys / frames)
    items,           \* the batch of the driver loop
    idx,             \* the item the driver loop is at (0: loop not entered)
    successCount,
    failCount,
    attempts,        \* history, per item: primary and fallback invocations, outcome
    tallied,         \* the final tally line was printed
    exitCode,        \* "running", 0 or 1
    commands,        \* history: the backend commands the driver loop started
    tmpFiles,        \* the temporary files that are in the output directory
    wroteManifest,   \* history: the items whose fallback wrote its manifest
    unlinkFailed     \* history: the items for which an unlinkSync call threw

vars == <<pipeline, inputExists, outputExists, listing, toolsInstalled, pc,
          inflight,
          imageMagickPath, pathWrites, tool, resolves, probeLog, scans,
          grouped, items, idx, successCount, failCount, attempts, tallied,
          exitCode, commands, tmpFiles, wroteManifest, unlinkFailed>>

\* the state of the temporary files of the FFmpeg backends
fallbackVars == <<tmpFiles, wroteManifest, unlinkFailed>>

(***************************************************************************)
(* Bounds of the model.                                                    *)
(***************************************************************************)
\* longest directory listing given to the grouping functions on their own
MaxFiles == 4
\* longest directory listing of a whole run
MaxRunFiles == 4

(***************************************************************************)
(* Strings.                                                                *)
(***************************************************************************)
Char(s, i) == SubSeq(s, i, i)

DigitChars == <<"0", "1", "2", "3", "4", "5", "6", "7", "8", "9">>

Digits == {DigitChars[i] : i \in 1..10}

\* \d+
IsDigits(s) == Len(s) >= 1 /\ \A i \in 1..Len(s) : Char(s, i) \in Digits

DigitVal(c) == (CHOOSE i \in 1..10 : DigitChars[i] = c) - 1

\* the characters '.' of a regular expression does not match
LineTerminators == {"\n", "\r"}

SetMax(S) == CHOOSE x \in S : \A y \in S : y <= x

SetMin(S) == CHOOSE x \in S : \A y \in S : x <= y

\* parseInt(match[2]) on a string of decimal digits (no radix prefix can occur)
RECURSIVE ParseInt(_)
ParseInt(s) ==
    IF Len(s) = 0 THEN 0
    ELSE 10 * ParseInt(SubSeq(s, 1, Len(s) - 1)) + DigitVal(Char(s, Len(s)))

\* path.extname(file) for a name without directory separators: from the last
\* '.' to the end; '' when there is no '.', when the only '.' is the first
\* character, and for '..'
ExtName(file) ==
    LET dots == {i \in 1..Len(file) : Char(file, i) = "."}
    IN  IF dots = {} THEN ""
        ELSE IF SetMax(dots) = 1 THEN ""
        ELSE IF file = ".." THEN ""
        ELSE SubSeq(file, SetMax(dots), Len(file))

\* file.match(/^(.+)_(\d+)\.png$/): the greedy (.+) takes the longest prefix
\* after which '_', one or more digits and '.png' reach the end of the name
MatchFrame(file) ==
    LET n    == Len(file)
        stem == SubSeq(file, 1, n - 4)
        cuts == {k \in 2..Len(stem) :
                    /\ Char(stem, k) = "_"
                    /\ IsDigits(SubSeq(stem, k + 1, Len(stem)))
                    /\ \A j \in 1..(k - 1) : Char(stem, j) \notin LineTerminators}
    IN  IF n < 4 \/ SubSeq(file, n - 3, n) # ".png" \/ cuts = {}
        THEN [ok |-> FALSE, base |-> "", digits |-> ""]
        ELSE LET k == SetMax(cuts)
             IN  [ok |-> TRUE, base |-> SubSeq(stem, 1, k - 1),
                  digits |-> SubSeq(stem, k + 1, Len(stem))]

(***************************************************************************)
(* The grouping functions.                                                 *)
(***************************************************************************)
\* the input directory of each script
InputDir(p) == IF p = "transparentGif" THEN "converted/transparent"
               ELSE "converted/textures"

\* path.join(dir, file)
PathJoin(dir, file) == dir \o "/" \o file

\* the properties every object literal inherits from Object.prototype: for
\* these keys groups[key] is truthy although groups has no such own property
ObjectPrototypeKeys ==
    {"constructor", "toString", "toLocaleString", "valueOf", "hasOwnProperty",
     "isPrototypeOf", "propertyIsEnumerable", "__proto__", "__defineGetter__",
     "__defineSetter__", "__lookupGetter__", "__lookupSetter__"}

\* the frame record pushed for a matching file
FrameRecord(dir, file, digits) ==
    [file |-> file, frame |-> ParseInt(digits), path |-> PathJoin(dir, file)]

\* the own keys of an object under construction, in insertion order
OwnKeys(entries) == {entries[i].key : i \in 1..Len(entries)}

EntryOf(entries, key) == CHOOSE i \in 1..Len(entries) : entries[i].key = key

\* files.forEach(...): groups is a sequence of [key, frames] in insertion
\* order; threw is set when groups[baseName].push is not a function
RECURSIVE Collect(_, _)
Collect(dir, files) ==
    IF files = <<>> THEN [threw |-> FALSE, entries |-> <<>>]
    ELSE LET prev == Collect(dir, SubSeq(files, 1, Len(files) - 1))
             file == files[Len(files)]
             m    == MatchFrame(file)
         IN  IF prev.threw \/ ExtName(file) # ".png" \/ ~m.ok THEN prev
             ELSE LET rec == FrameRecord(dir, file, m.digits)
                  IN  IF m.base \in OwnKeys(prev.entries)
                      THEN LET i == EntryOf(prev.entries, m.base)
                           IN  [prev EXCEPT !.entries[i].frames = Append(@, rec)]
                      ELSE IF m.base \in ObjectPrototypeKeys
                      THEN [prev EXCEPT !.threw = TRUE]
                      ELSE [prev EXCEPT !.entries =
                               Append(@, [key |-> m.base, frames |-> <<rec>>])]

\* frames.sort((a, b) => a.frame - b.frame): a stable sort (insertion of each
\* element after the elements that do not compare greater)
\* (a grouping that forgets to sort keeps the listing's order)
SortFramesUnsorted(frames) == frames

RECURSIVE SortFrames(_)
SortFrames(frames) ==
    IF Len(frames) <= 1 THEN frames
    ELSE LET front == SortFrames(SubSeq(frames, 1, Len(frames) - 1))
             x     == frames[Len(frames)]
             le    == {i \in 1..Len(front) : front[i].frame - x.frame <= 0}
             k     == IF le = {} THEN 0 ELSE SetMax(le)
         IN  SubSeq(front, 1, k) \o <<x>> \o SubSeq(front, k + 1, Len(front))

\* a key that is an array index ("0", "7", "10", not "01"): Object.keys lists
\* these first, in ascending numeric order
IsArrayIndex(key) ==
    /\ IsDigits(key)
    /\ (Len(key) = 1 \/ Char(key, 1) # "0")
    /\ Len(key) <= 9

RECURSIVE SortKeysNumeric(_)
SortKeysNumeric(keys) ==
    IF keys = {} THEN <<>>
    ELSE LET k == CHOOSE x \in keys : \A y \in keys : ParseInt(x) <= ParseInt(y)
         IN  <<k>> \o SortKeysNumeric(keys \ {k})

\* Object.keys(groups)
ObjectKeys(entries) ==
    LET IsIdx(e)  == IsArrayIndex(e.key)
        NotIdx(e) == ~IsArrayIndex(e.key)
        rest      == SelectSeq(entries, NotIdx)
    IN  SortKeysNumeric(OwnKeys(SelectSeq(entries, IsIdx)))
        \o [i \in 1..Len(rest) |-> rest[i].key]

\* the second pass: sort every group, delete the groups of fewer than 2 frames
MinFrames == 2

SortAndFilter(entries) ==
    LET sorted  == [i \in 1..Len(entries) |->
                      [entries[i] EXCEPT !.frames = SortFrames(@)]]
        Keep(e) == ~(Len(e.frames) < MinFrames)
    IN  SelectSeq(sorted, Keep)

\* groupImagesByBaseName / groupTransparentImagesByBaseName on a listing:
\* threw, or the mapping as its keys (in Object.keys order) and its frames
GroupImagesByBaseName(dir, files) ==
    LET c == Collect(dir, files)
    IN  IF c.threw THEN [threw |-> TRUE, keys |-> <<>>, frames |-> <<>>]
        ELSE LET kept == SortAndFilter(c.entries)
             IN  [threw  |-> FALSE,
                  keys   |-> ObjectKeys(kept),
                  frames |-> [k \in OwnKeys(kept) |->
                                 kept[EntryOf(kept, k)].frames]]

NoGroups == [threw |-> FALSE, keys |-> <<>>, frames |-> <<>>]

(***************************************************************************)
(* The grouping functions applied to bounded directory listings.           *)
(***************************************************************************)
\* file names a listing is drawn from: frames of one base ("a") with a
\* repeated index ("1" and "01"), a second base whose indexes sort differently
\* as numbers and as strings, a base that ends in '_<digits>' itself, names of
\* another shape or extension, and a base that names an inherited property
FileNames ==
    {"a_0.png", "a_1.png", "a_01.png", "b_9.png", "b_10.png", "a_1_2.png",
     "a_x.png", "a_1.txt", "_1.png", "toString_1.png"}

\* the listings readdirSync can return: no name twice, any order
Listings(names, n) ==
    UNION {{l \in [1..k -> names] : \A i, j \in 1..k : l[i] = l[j] => i = j} :
              k \in 0..n}

Undefined == "<undefined>"

Null == "<null>"

InitGroup ==
    /\ pipeline \in {"gif", "transparentGif"}
    /\ listing \in Listings(FileNames, MaxFiles)
    /\ toolsInstalled = TRUE
    /\ pc = "group"
    /\ inputExists = TRUE
    /\ outputExists = TRUE
    /\ inflight = <<>>
    /\ imageMagickPath = Undefined
    /\ pathWrites = 0
    /\ tool = Undefined
    /\ resolves = 0
    /\ probeLog = <<>>
    /\ scans = 0
    /\ grouped = NoGroups
    /\ items = <<>>
    /\ idx = 0
    /\ successCount = 0
    /\ failCount = 0
    /\ attempts = <<>>
    /\ tallied = FALSE
    /\ exitCode = "running"
    /\ commands = <<>>
    /\ tmpFiles = {}
    /\ wroteManifest = {}
    /\ unlinkFailed = {}

\* one call of groupImagesByBaseName() / groupTransparentImagesByBaseName()
GroupCall ==
    /\ pc = "group"
    /\ pc' = "grouped"
    /\ scans' = scans + 1
    /\ grouped' = GroupImagesByBaseName(InputDir(pipeline), listing)
    /\ UNCHANGED <<pipeline, inputExists, outputExists, listing,
                   toolsInstalled, inflight, imageMagickPath, pathWrites,
                   tool, resolves, probeLog,
                   items, idx, successCount, failCount, attempts, tallied,
                   exitCode, commands, fallbackVars>>

NextGroup == GroupCall

SpecGroup == InitGroup /\ [][NextGroup]_vars

(***************************************************************************)
(* A whole run of one script.                                              *)
(***************************************************************************)
Pipelines == {"transparency", "gif", "transparentGif"}

\* the files of a run's input directory, in the order the listing has them
RunNames == <<"a_0.png", "a_1.png", "7_0.png", "7_1.png", "c.png", "n.txt",
              "toString_1.png">>

RECURSIVE Pick(_, _)
Pick(names, S) ==
    IF names = <<>> THEN <<>>
    ELSE LET front == Pick(SubSeq(names, 1, Len(names) - 1), S)
         IN  IF Len(names) \in S THEN Append(front, names[Len(names)])
             ELSE front

RunListings ==
    {Pick(RunNames, S) : S \in {T \in SUBSET (1..Len(RunNames)) :
                                   Cardinality(T) <= MaxRunFiles}}

\* getAllPngFiles(): files.filter(file => path.extname(file) === '.png')
GetAllPngFiles(files) ==
    LET IsPng(f) == ExtName(f) = ".png" IN SelectSeq(files, IsPng)

\* the well-known installation paths
CommonPaths ==
    <<"C:\\Program Files\\ImageMagick-7.1.2-Q16-HDRI\\magick.exe",
      "C:\\Program Files\\ImageMagick-7.1.1-Q16-HDRI\\magick.exe",
      "C:\\Program Files\\ImageMagick-7.1.0-Q16-HDRI\\magick.exe",
      "C:\\Program Files\\ImageMagick\\magick.exe",
      "C:\\ImageMagick\\magick.exe">>

\* a value of process.env.MAGICK_PATH
EnvMagickPath == "D:\\tools\\magick.exe"

\* `"${path}"`
Quoted(path) == "\"" \o path \o "\""

\* the probe steps, as probeLog numbers them
StepMagick == 1
StepConvert == 2
StepEnv == 3
StepPaths == 4
StepFfmpeg == 5

LogEntry(step, path, ok) == [step |-> step, path |-> path, ok |-> ok]

\* exec(command, callback): the subprocess is in flight until its callback
Exec(infl, proc) == Append(infl, proc)

\* the callback of the subprocess of this kind fires
\* (a callback that fires while its subprocess is still running)
CallbackKeepsProcess(infl, kind) == infl

Callback(infl, kind) ==
    LET IsOther(p) == p.kind # kind IN SelectSeq(infl, IsOther)

Running(kind) == \E i \in 1..Len(inflight) : inflight[i].kind = kind

Proc(kind, item, program) == [kind |-> kind, item |-> item, program |-> program]

Init ==
    /\ pipeline \in Pipelines
    /\ inputExists \in BOOLEAN
    /\ outputExists \in BOOLEAN
    /\ listing \in RunListings
    /\ toolsInstalled \in BOOLEAN
    /\ pc = "load"
    /\ inflight = <<>>
    /\ imageMagickPath = Undefined
    /\ pathWrites = 0
    /\ tool = Undefined
    /\ resolves = 0
    /\ probeLog = <<>>
    /\ scans = 0
    /\ grouped = NoGroups
    /\ items = <<>>
    /\ idx = 0
    /\ successCount = 0
    /\ failCount = 0
    /\ attempts = <<>>
    /\ tallied = FALSE
    /\ exitCode = "running"
    /\ commands = <<>>
    /\ tmpFiles = {}
    /\ wroteManifest = {}
    /\ unlinkFailed = {}

\* the module's top level: if (!fs.existsSync(outputDir)) fs.mkdirSync(...)
EnsureOutputDir(out) == IF ~out THEN TRUE ELSE out

ModuleLoad ==
    /\ pc = "load"
    /\ pc' = "main"
    /\ outputExists' = EnsureOutputDir(outputExists)
    /\ UNCHANGED <<pipeline, inputExists, listing, toolsInstalled, inflight,
                   imageMagickPath, pathWrites, tool, resolves, probeLog,
                   scans, grouped, items,
                   idx, successCount, failCount, attempts, tallied, exitCode,
                   commands, fallbackVars>>

\* process.exit(code), or the event loop running empty (code 0)
Exit(code) ==
    /\ pc' = "exited"
    /\ exitCode' = code

\* checkDependencies() is called: exec('magick -version', ...)
CheckDependencies ==
    /\ pc' = "probe_magick"
    /\ inflight' = Exec(inflight, Proc("magick -version", 0, "magick"))
    /\ UNCHANGED exitCode

\* an item the loop has not reached
NoAttempt == [primary |-> 0, fallback |-> 0, outcome |-> "none"]

\* the program of the ImageMagick command line
\* (a backend that runs the command the probe found)
PrimaryProgramByTool ==
    IF imageMagickPath # Undefined THEN imageMagickPath
    ELSE IF tool = "imagemagick-convert" THEN "convert"
    ELSE IF tool = "ffmpeg" THEN "ffmpeg"
    ELSE "magick"

PrimaryProgram ==
    IF imageMagickPath # Undefined THEN imageMagickPath ELSE "magick"

\* the for loop reaches item i: the primary backend is invoked and awaited
InvokePrimary(att, i) == [att EXCEPT ![i].primary = @ + 1]

\* the driver loop is entered with this batch
StartLoop(batch) ==
    /\ items' = batch
    /\ idx' = 1
    /\ successCount' = 0
    /\ failCount' = 0
    /\ attempts' = InvokePrimary([i \in 1..Len(batch) |-> NoAttempt], 1)
    /\ inflight' = Exec(inflight, Proc("primary", 1, PrimaryProgram))
    /\ commands' = Append(commands, Proc("primary", 1, PrimaryProgram))
    /\ pc' = "primary"
    /\ UNCHANGED <<tallied, exitCode>>

\* !fs.existsSync(texturesDir) / !fs.existsSync(transparentDir)
\* (a main that does not look at the input directory)
InputMissingUnchecked == FALSE

InputMissing == ~inputExists

\* main() up to its first suspension
MainStart ==
    /\ pc = "main"
    /\ IF InputMissing
       THEN /\ Exit(1)
            /\ UNCHANGED <<inflight, scans, grouped>>
       ELSE IF pipeline = "gif"
       THEN LET g == GroupImagesByBaseName(InputDir(pipeline), listing)
            IN  /\ scans' = scans + 1
                /\ grouped' = g
                /\ IF g.threw \/ Len(g.keys) = 0
                   THEN Exit(0) /\ UNCHANGED inflight
                   ELSE CheckDependencies
       ELSE /\ CheckDependencies
            /\ UNCHANGED <<scans, grouped>>
    /\ UNCHANGED <<pipeline, inputExists, outputExists, listing,
                   toolsInstalled,
                   imageMagickPath, pathWrites, tool, resolves, probeLog,
                   items, idx, successCount, failCount, attempts, tallied,
                   commands, fallbackVars>>

(***************************************************************************)
(* checkDependencies: the three scripts carry the same probe.              *)
(***************************************************************************)
\* resolve(value): a promise keeps the value of the first call
Resolve(value) ==
    /\ tool' = IF resolves = 0 THEN value ELSE tool
    /\ resolves' = resolves + 1
    /\ pc' = "probed"

\* resolve('imagemagick-path') in the loop over the well-known paths: once
\* for every path the loop finds on disk
ResolveInLoop(found) ==
    /\ tool' = IF resolves = 0 THEN "imagemagick-path" ELSE tool
    /\ resolves' = resolves + Cardinality(found)
    /\ pc' = "probed"

\* global.imageMagickPath = `"${path}"`
\* (a probe that finds the executable and does not record where)
RecordedPathForgotten(path) == Undefined

RecordedPath(path) == Quoted(path)

\* magickPath && fs.existsSync(magickPath)
EnvAccepted(env) == env.set /\ env.onDisk

\* for (const imageMagickPath of commonPaths) { if (existsSync) {...; break} }:
\* the indexes the loop visits
\* (the loop without its break visits every path)
PathsVisitedNoBreak(onDisk) == 1..Len(CommonPaths)

PathsVisited(onDisk) ==
    IF onDisk = {} THEN 1..Len(CommonPaths) ELSE 1..SetMin(onDisk)

PathsLog(onDisk) ==
    [k \in PathsVisited(onDisk) |-> LogEntry(StepPaths, k, k \in onDisk)]

\* callback of exec('magick -version')
MagickVersionDone ==
    /\ pc = "probe_magick"
    /\ Running("magick -version")
    /\ \E ok \in {FALSE, toolsInstalled} :
          /\ probeLog' = Append(probeLog, LogEntry(StepMagick, 0, ok))
          /\ IF ok
             THEN /\ Resolve("imagemagick")
                  /\ inflight' = Callback(inflight, "magick -version")
             ELSE /\ pc' = "probe_convert"
                  /\ inflight' = Exec(Callback(inflight, "magick -version"),
                                      Proc("convert -version", 0, "convert"))
                  /\ UNCHANGED <<tool, resolves>>
    /\ UNCHANGED <<pipeline, inputExists, outputExists, listing,
                   toolsInstalled,
                   imageMagickPath, pathWrites, scans, grouped, items, idx,
                   successCount, failCount, attempts, tallied, exitCode,
                   commands, fallbackVars>>

\* callback of exec('convert -version'): on its failure the MAGICK_PATH check
\* and the loop over the well-known paths run in the same callback
ConvertVersionDone ==
    /\ pc = "probe_convert"
    /\ Running("convert -version")
    /\ \/ /\ toolsInstalled
          /\ probeLog' = Append(probeLog, LogEntry(StepConvert, 0, TRUE))
          /\ Resolve("imagemagick-convert")
          /\ inflight' = Callback(inflight, "convert -version")
          /\ UNCHANGED <<imageMagickPath, pathWrites>>
       \/ \E env \in [set : BOOLEAN, onDisk : BOOLEAN] :
             /\ toolsInstalled
             /\ EnvAccepted(env)
             /\ probeLog' = probeLog \o <<LogEntry(StepConvert, 0, FALSE),
                                          LogEntry(StepEnv, 0, TRUE)>>
             /\ imageMagickPath' = RecordedPath(EnvMagickPath)
             /\ pathWrites' = pathWrites + 1
             /\ Resolve("imagemagick-path")
             /\ inflight' = Callback(inflight, "convert -version")
       \/ \E env \in [set : BOOLEAN, onDisk : BOOLEAN],
             onDisk \in SUBSET (1..Len(CommonPaths)) :
             LET found == PathsVisited(onDisk) \cap onDisk
             IN  /\ toolsInstalled \/ onDisk = {}
                 /\ ~EnvAccepted(env)
                 /\ probeLog' = probeLog \o <<LogEntry(StepConvert, 0, FALSE),
                                              LogEntry(StepEnv, 0, FALSE)>>
                                         \o PathsLog(onDisk)
                 /\ IF found # {}
                    THEN /\ imageMagickPath' =
                                RecordedPath(CommonPaths[SetMax(found)])
                         /\ pathWrites' = pathWrites + Cardinality(found)
                         /\ ResolveInLoop(found)
                         /\ inflight' = Callback(inflight, "convert -version")
                    ELSE /\ pc' = "probe_ffmpeg"
                         /\ inflight' =
                                Exec(Callback(inflight, "convert -version"),
                                     Proc("ffmpeg -version", 0, "ffmpeg"))
                         /\ UNCHANGED <<imageMagickPath, pathWrites, tool,
                                        resolves>>
    /\ UNCHANGED <<pipeline, inputExists, outputExists, listing,
                   toolsInstalled, scans, grouped, items, idx, successCount,
                   failCount, attempts, tallied, exitCode, commands,
                   fallbackVars>>

\* callback of exec('ffmpeg -version')
FfmpegVersionDone ==
    /\ pc = "probe_ffmpeg"
    /\ Running("ffmpeg -version")
    /\ \E ok \in {toolsInstalled} :
          /\ probeLog' = Append(probeLog, LogEntry(StepFfmpeg, 0, ok))
          /\ Resolve(IF ok THEN "ffmpeg" ELSE Null)
    /\ inflight' = Callback(inflight, "ffmpeg -version")
    /\ UNCHANGED <<pipeline, inputExists, outputExists, listing,
                   toolsInstalled,
                   imageMagickPath, pathWrites, scans, grouped, items, idx,
                   successCount, failCount, attempts, tallied, exitCode,
                   commands, fallbackVars>>

\* main() after `await checkDependencies()`, up to the first primary command
AfterProbe ==
    /\ pc = "probed"
    /\ IF tool = Null
       THEN \* process.exit(1); in the GIF creator installImageMagick is not
            \* defined, the ReferenceError is caught and process.exit(1) runs
            /\ Exit(1)
            /\ UNCHANGED <<scans, grouped, items, idx, successCount,
                           failCount, attempts, inflight, tallied, commands>>
       ELSE CASE pipeline = "transparency" ->
                 IF Len(GetAllPngFiles(listing)) = 0
                 THEN /\ scans' = scans + 1
                      /\ Exit(0)
                      /\ UNCHANGED <<grouped, items, idx, successCount,
                                     failCount, attempts, inflight, tallied,
                                     commands>>
                 ELSE /\ scans' = scans + 2
                      /\ StartLoop(GetAllPngFiles(listing))
                      /\ UNCHANGED grouped
              [] pipeline = "transparentGif" ->
                 LET g == GroupImagesByBaseName(InputDir(pipeline), listing)
                 IN  /\ scans' = scans + 1
                     /\ grouped' = g
                     /\ IF g.threw \/ Len(g.keys) = 0
                        THEN /\ Exit(0)
                             /\ UNCHANGED <<items, idx, successCount,
                                            failCount, attempts, inflight,
                                            tallied, commands>>
                        ELSE StartLoop(g.keys)
              [] pipeline = "gif" ->
                 /\ StartLoop(grouped.keys)
                 /\ UNCHANGED <<scans, grouped>>
    /\ UNCHANGED <<pipeline, inputExists, outputExists, listing,
                   toolsInstalled,
                   imageMagickPath, pathWrites, tool, resolves, probeLog,
                   fallbackVars>>

(***************************************************************************)
(* The driver loops: processImages, createGifs, createTransparentGifs.     *)
(***************************************************************************)
\* the catch block of the primary backend: the fallback backend is invoked
\* (a driver that retries the fallback once more)
InvokeFallbackRetry(att, i) == [att EXCEPT ![i].fallback = @ + 2]

InvokeFallback(att, i) == [att EXCEPT ![i].fallback = @ + 1]

\* successCount++ / failCount++
\* (a driver that forgets successCount++ after the fallback)
CountSuccessPrimaryOnly(outcome) == IF outcome = "primary" THEN 1 ELSE 0

CountSuccess(outcome) == IF outcome \in {"primary", "fallback"} THEN 1 ELSE 0

CountFailure(outcome) == IF outcome = "failed" THEN 1 ELSE 0

\* the current item is settled: count it, then go on with the next item or,
\* after the last one, print the tally and return (the process ends with 0)
Settle(infl, att, outcome) ==
    LET settled == [att EXCEPT ![idx].outcome = outcome]
    IN  /\ successCount' = successCount + CountSuccess(outcome)
        /\ failCount' = failCount + CountFailure(outcome)
        /\ IF idx < Len(items)
           THEN /\ idx' = idx + 1
                /\ attempts' = InvokePrimary(settled, idx + 1)
                /\ inflight' = Exec(infl, Proc("primary", idx + 1, PrimaryProgram))
                /\ commands' =
                       Append(commands, Proc("primary", idx + 1, PrimaryProgram))
                /\ pc' = "primary"
                /\ UNCHANGED <<tallied, exitCode>>
           ELSE /\ attempts' = settled
                /\ inflight' = infl
                /\ tallied' = TRUE
                /\ Exit(0)
                /\ UNCHANGED <<idx, commands>>

\* a driver whose inner catch rethrows: main rejects, console.error, exit
FinishRethrows(infl, att, outcome) ==
    IF outcome = "failed"
    THEN /\ attempts' = [att EXCEPT ![idx].outcome = outcome]
         /\ inflight' = infl
         /\ Exit(0)
         /\ UNCHANGED <<successCount, failCount, idx, tallied, commands>>
    ELSE Settle(infl, att, outcome)

Finish(infl, att, outcome) == Settle(infl, att, outcome)

\* the temporary files of the fallback of an item: `${baseName}_list.txt`
\* and `${baseName}_palette.png` / `${listFile}.palette.png`
TmpFile(kind, item) == [kind |-> kind, item |-> item]

ListFile(item) == TmpFile("manifest", item)

PaletteFile(item) == TmpFile("palette", item)

\* fs.writeFileSync(file, ...), and FFmpeg writing its -y output file
WriteFile(files, file) == files \cup {file}

\* the ways the clean-up can go: no unlinkSync throws, or the one of a file
\* that is there throws (the one of a file that is not there throws as well,
\* and leaves nothing behind)
UnlinkFailures(files, item) ==
    {"none"} \cup (IF ListFile(item) \in files THEN {"manifest"} ELSE {})
             \cup (IF PaletteFile(item) \in files THEN {"palette"} ELSE {})

\* try { fs.unlinkSync(listFile); fs.unlinkSync(paletteFile); } catch (e) {}
\* a throwing unlinkSync(listFile) skips the second call
UnlinkTempFiles(files, item, failure) ==
    /\ tmpFiles' = CASE failure = "manifest" -> files
                     [] failure = "palette" -> files \ {ListFile(item)}
                     [] OTHER -> files \ {ListFile(item), PaletteFile(item)}
    /\ unlinkFailed' = IF failure = "none" THEN unlinkFailed
                       ELSE unlinkFailed \cup {item}

\* the fallback of the two GIF scripts starts: the manifest is written and
\* the first FFmpeg command is started
StartGifFallback(infl, att, kind, next) ==
    /\ attempts' = att
    /\ tmpFiles' = WriteFile(tmpFiles, ListFile(idx))
    /\ wroteManifest' = wroteManifest \cup {idx}
    /\ inflight' = Exec(infl, Proc(kind, idx, "ffmpeg"))
    /\ commands' = Append(commands, Proc(kind, idx, "ffmpeg"))
    /\ pc' = next
    /\ UNCHANGED <<idx, successCount, failCount, tallied, exitCode,
                   unlinkFailed>>

\* callback of the ImageMagick command of the current item
PrimaryDone ==
    /\ pc = "primary"
    /\ Running("primary")
    /\ LET infl == Callback(inflight, "primary")
           att  == InvokeFallback(attempts, idx)
       IN  \/ /\ Finish(infl, attempts, "primary")
              /\ UNCHANGED fallbackVars
           \/ \* makeTransparentWithFFmpeg: one command, no temporary file
              /\ pipeline = "transparency"
              /\ attempts' = att
              /\ inflight' = Exec(infl, Proc("fallback", idx, "ffmpeg"))
              /\ commands' = Append(commands, Proc("fallback", idx, "ffmpeg"))
              /\ pc' = "fallback"
              /\ UNCHANGED <<idx, successCount, failCount, tallied, exitCode,
                             fallbackVars>>
           \/ \* fs.writeFileSync(listFile, ...) throws: the promise rejects
              /\ pipeline \in {"gif", "transparentGif"}
              /\ Finish(infl, att, "failed")
              /\ UNCHANGED fallbackVars
           \/ \* createGifWithFFmpeg: exec(command1, ...)
              /\ pipeline = "gif"
              /\ StartGifFallback(infl, att, "palette", "fb_palette")
           \/ \* exec(paletteCmd + ' && ' + gifCmd): one shell, two passes
              /\ pipeline = "transparentGif"
              /\ StartGifFallback(infl, att, "fallback", "fallback")
    /\ UNCHANGED <<pipeline, inputExists, outputExists, listing,
                   toolsInstalled,
                   imageMagickPath, pathWrites, tool, resolves, probeLog,
                   scans, grouped, items>>

\* callback of the FFmpeg command of makeTransparentWithFFmpeg and of
\* createTransparentGifWithFFmpeg; the latter cleans up before it settles.
\* A shell that ran both passes wrote the palette; one that failed may have
\* written it or not
FallbackDone ==
    /\ pc = "fallback"
    /\ Running("fallback")
    /\ \E ok \in BOOLEAN :
          /\ Finish(Callback(inflight, "fallback"), attempts,
                    IF ok THEN "fallback" ELSE "failed")
          /\ IF pipeline = "transparency"
             THEN UNCHANGED fallbackVars
             ELSE \E palette \in (IF ok THEN {TRUE} ELSE BOOLEAN) :
                     LET files == IF palette
                                  THEN WriteFile(tmpFiles, PaletteFile(idx))
                                  ELSE tmpFiles
                     IN  \E failure \in UnlinkFailures(files, idx) :
                            /\ UnlinkTempFiles(files, idx, failure)
                            /\ UNCHANGED wroteManifest
    /\ UNCHANGED <<pipeline, inputExists, outputExists, listing,
                   toolsInstalled,
                   imageMagickPath, pathWrites, tool, resolves, probeLog,
                   scans, grouped, items>>

\* callback of command1 of createGifWithFFmpeg (the palette pass): on error1
\* reject(error1) and return, nothing is unlinked; the failed pass may have
\* written the palette or not
PaletteDone ==
    /\ pc = "fb_palette"
    /\ Running("palette")
    /\ \/ /\ Finish(Callback(inflight, "palette"), attempts, "failed")
          /\ \E palette \in BOOLEAN :
                tmpFiles' = IF palette
                            THEN WriteFile(tmpFiles, PaletteFile(idx))
                            ELSE tmpFiles
          /\ UNCHANGED <<wroteManifest, unlinkFailed>>
       \/ /\ inflight' = Exec(Callback(inflight, "palette"),
                              Proc("encode", idx, "ffmpeg"))
          /\ commands' = Append(commands, Proc("encode", idx, "ffmpeg"))
          /\ tmpFiles' = WriteFile(tmpFiles, PaletteFile(idx))
          /\ pc' = "fb_encode"
          /\ UNCHANGED <<idx, successCount, failCount, attempts, tallied,
                         exitCode, wroteManifest, unlinkFailed>>
    /\ UNCHANGED <<pipeline, inputExists, outputExists, listing,
                   toolsInstalled,
                   imageMagickPath, pathWrites, tool, resolves, probeLog,
                   scans, grouped, items>>

\* callback of command2 of createGifWithFFmpeg (the encode pass): the
\* temporary files are unlinked, then the promise settles
EncodeDone ==
    /\ pc = "fb_encode"
    /\ Running("encode")
    /\ \E ok \in BOOLEAN :
          Finish(Callback(inflight, "encode"), attempts,
                 IF ok THEN "fallback" ELSE "failed")
    /\ \E failure \in UnlinkFailures(tmpFiles, idx) :
          UnlinkTempFiles(tmpFiles, idx, failure)
    /\ UNCHANGED wroteManifest
    /\ UNCHANGED <<pipeline, inputExists, outputExists, listing,
                   toolsInstalled,
                   imageMagickPath, pathWrites, tool, resolves, probeLog,
                   scans, grouped, items>>

Next ==
    \/ ModuleLoad
    \/ MainStart
    \/ MagickVersionDone
    \/ ConvertVersionDone
    \/ FfmpegVersionDone
    \/ AfterProbe
    \/ PrimaryDone
    \/ FallbackDone
    \/ PaletteDone
    \/ EncodeDone

Spec == Init /\ [][Next]_vars

\* every backend subprocess exits and its callback fires: exec sets no
\* timeout, the tools are taken to terminate
FairSpec ==
    /\ Spec
    /\ WF_vars(PrimaryDone)
    /\ WF_vars(FallbackDone)
    /\ WF_vars(PaletteDone)
    /\ WF_vars(EncodeDone)

(***************************************************************************)
(* Properties.                                                             *)
(***************************************************************************)
Item == 1..Len(items)

LoopEntered == idx > 0

\* C1: in every driver loop the primary backend is attempted exactly once on
\* every item, whatever happened to the other items: the items before the
\* current one and the current one have one attempt, the later ones none yet;
\* the run ends only after the last item, with the tally printed; and once the
\* loop is entered the tally is always reached.
C1_EveryItemAttemptedOnce ==
    /\ [](LoopEntered =>
            /\ \A i \in Item : attempts[i].primary = IF i <= idx THEN 1 ELSE 0
            /\ pc = "exited" => tallied /\ idx = Len(items))
    /\ [](LoopEntered => <>tallied)

\* C1: an item in the middle of a batch failed on both backends, and the
\* items before and after it were attempted and the tally printed.
C1_Witness ==
    /\ tallied
    /\ Len(items) >= 3
    /\ attempts[2].outcome = "failed"
    /\ attempts[1].primary = 1
    /\ attempts[3].primary = 1
    /\ attempts[3].outcome = "primary"

FallbackStage == pc \in {"fallback", "fb_palette", "fb_encode"}

\* C2: for every item the fallback backend is invoked at most once; it was
\* invoked exactly once on an item that the fallback settled or that is
\* counted as failed, and on the item whose fallback is running; it was not
\* invoked on an item the primary backend settled, nor on an item whose
\* primary command is still running or that the loop has not reached.
C2_FallbackExactlyOnceAfterPrimaryFailure ==
    LoopEntered =>
        \A i \in Item :
            /\ attempts[i].fallback <= 1
            /\ attempts[i].outcome \in {"fallback", "failed"}
                  => attempts[i].fallback = 1
            /\ attempts[i].outcome = "primary" => attempts[i].fallback = 0
            /\ (i = idx /\ FallbackStage) => attempts[i].fallback = 1
            /\ (i = idx /\ pc = "primary") => attempts[i].fallback = 0
            /\ i > idx => attempts[i].fallback = 0

\* C2: a finished batch with an item that failed on both backends after one
\* fallback invocation and an item the primary backend converted.
C2_Witness ==
    /\ tallied
    /\ \E i, j \in Item :
          /\ attempts[i].outcome = "failed" /\ attempts[i].fallback = 1
          /\ attempts[j].outcome = "primary" /\ attempts[j].fallback = 0
          /\ attempts[j].primary = 1

\* the subprocess kinds each position of the run waits for
ExpectedKind ==
    CASE pc = "probe_magick" -> "magick -version"
      [] pc = "probe_convert" -> "convert -version"
      [] pc = "probe_ffmpeg" -> "ffmpeg -version"
      [] pc = "primary" -> "primary"
      [] pc = "fallback" -> "fallback"
      [] pc = "fb_palette" -> "palette"
      [] pc = "fb_encode" -> "encode"
      [] OTHER -> "none"

\* C3: at most one subprocess is in flight at any time; the one in flight is
\* the one the run waits for and belongs to the current item (a probe command
\* to none), so no command of item k+1 runs before item k's last one exited;
\* nothing is in flight when the process has ended.
C3_OneSubprocessAtATime ==
    /\ Len(inflight) <= 1
    /\ \A i \in 1..Len(inflight) :
          /\ inflight[i].kind = ExpectedKind
          /\ inflight[i].item = idx
    /\ ExpectedKind = "none" => inflight = <<>>

\* C3: the encode pass of the fallback of a later item is in flight, alone.
C3_Witness ==
    /\ idx >= 2
    /\ Len(inflight) = 1
    /\ inflight[1].kind = "encode"
    /\ inflight[1].item = idx

\* C4: whenever the input directory exists and no probe step can succeed, a
\* run that has ended has ended with exit code 1 and has invoked no backend.
C4_NoToolExitsOne ==
    (pc = "exited" /\ inputExists /\ ~toolsInstalled)
        => (exitCode = 1 /\ ~LoopEntered)

\* C5: when the input directory does not exist the run ends with exit code 1
\* and neither probes a tool, nor reads a directory, nor invokes a backend.
C5_MissingInputExitsFirst ==
    ~inputExists =>
        /\ pc \in {"load", "main", "exited"}
        /\ pc = "exited" => exitCode = 1
        /\ probeLog = <<>> /\ resolves = 0 /\ inflight = <<>>
        /\ scans = 0
        /\ ~LoopEntered

\* C5: a run without input directory has ended, with exit code 1.
C5_Witness == ~inputExists /\ pc = "exited" /\ exitCode = 1 /\ scans = 0

\* C6: when the input directory does not exist, an output directory that is
\* absent stays absent.
C6_OutputDirNotCreated ==
    [][(~inputExists /\ ~outputExists) => ~outputExists']_vars

\* the probe steps in their order, the well-known paths in list order
CanonicalSteps ==
    <<[step |-> StepMagick, path |-> 0], [step |-> StepConvert, path |-> 0],
      [step |-> StepEnv, path |-> 0]>>
    \o [k \in 1..Len(CommonPaths) |-> [step |-> StepPaths, path |-> k]]
    \o <<[step |-> StepFfmpeg, path |-> 0]>>

ProbeResolved == pc \notin {"load", "main", "probe_magick", "probe_convert",
                            "probe_ffmpeg"} /\ probeLog # <<>>

\* the value each successful step resolves to
ToolOfStep(step) ==
    CASE step = StepMagick -> "imagemagick"
      [] step = StepConvert -> "imagemagick-convert"
      [] step \in {StepEnv, StepPaths} -> "imagemagick-path"
      [] step = StepFfmpeg -> "ffmpeg"

\* C7: the probe steps run in the fixed order (the log is a prefix of the
\* canonical order), every step but the last executed one failed (the probe
\* stops at the first success), resolve is called exactly once (not before the
\* probe is over), the value is the one of the step that succeeded, and it is
\* null exactly when all the steps were executed and failed.
C7_ProbeOrderFirstSuccess ==
    /\ Len(probeLog) <= Len(CanonicalSteps)
    /\ \A i \in 1..Len(probeLog) :
          /\ probeLog[i].step = CanonicalSteps[i].step
          /\ probeLog[i].path = CanonicalSteps[i].path
          /\ i < Len(probeLog) => ~probeLog[i].ok
    /\ resolves = IF ProbeResolved THEN 1 ELSE 0
    /\ ProbeResolved =>
          LET last == probeLog[Len(probeLog)]
          IN  /\ last.ok => tool = ToolOfStep(last.step)
              /\ last.ok \/ Len(probeLog) = Len(CanonicalSteps)
              /\ tool = Null <=>
                    /\ Len(probeLog) = Len(CanonicalSteps)
                    /\ \A i \in 1..Len(probeLog) : ~probeLog[i].ok

\* C7: the probe stopped at the third well-known path, after five failures.
C7_Witness ==
    /\ ProbeResolved
    /\ tool = "imagemagick-path"
    /\ Len(probeLog) = 6
    /\ probeLog[6].ok

\* C8: global.imageMagickPath is assigned at most once, and only in the
\* callback of the probe that holds steps 3 and 4; once the probe has resolved
\* it is set exactly when the probe succeeded through step 3 or 4 (to the
\* quoted MAGICK_PATH or the quoted first existing well-known path); no later
\* step of the run changes it.
C8_PathWrittenOnceByProbe ==
    /\ [](/\ pathWrites <= 1
          /\ ~ProbeResolved => imageMagickPath = Undefined /\ pathWrites = 0
          /\ ProbeResolved =>
                LET last == probeLog[Len(probeLog)]
                IN  /\ (imageMagickPath # Undefined) <=>
                           (last.ok /\ last.step \in {StepEnv, StepPaths})
                    /\ (last.ok /\ last.step = StepEnv) =>
                           imageMagickPath = Quoted(EnvMagickPath)
                    /\ (last.ok /\ last.step = StepPaths) =>
                           imageMagickPath = Quoted(CommonPaths[last.path])
                    /\ pathWrites = IF imageMagickPath # Undefined THEN 1 ELSE 0)
    /\ [][imageMagickPath' # imageMagickPath => pc = "probe_convert"]_vars
    /\ [][ProbeResolved => imageMagickPath' = imageMagickPath]_vars

\* C8: a batch was converted with the path the probe recorded at step 4.
C8_Witness ==
    /\ tallied
    /\ imageMagickPath = Quoted(CommonPaths[2])
    /\ pathWrites = 1
    /\ successCount >= 1

\* the names of a listing
Names(files) == {files[i] : i \in 1..Len(files)}

\* f is '<b>_<digits>.png' with a base b of at least one character
HasForm(f, b) ==
    LET n == Len(f)
    IN  /\ Len(b) >= 1
        /\ n >= Len(b) + 6
        /\ SubSeq(f, 1, Len(b)) = b
        /\ Char(f, Len(b) + 1) = "_"
        /\ IsDigits(SubSeq(f, Len(b) + 2, n - 4))
        /\ SubSeq(f, n - 3, n) = ".png"

\* the strings a base name of a listing can be: the prefixes of its names
Prefixes(files) ==
    UNION {{SubSeq(f, 1, k) : k \in 1..Len(f)} : f \in Names(files)}

\* the files of the group keyed b in a grouping result (none without the key)
Members(g, b) ==
    IF b \in DOMAIN g.frames
    THEN {g.frames[b][i].file : i \in 1..Len(g.frames[b])}
    ELSE {}

\* the files of the listing with base b
FilesOfBase(files, b) == {f \in Names(files) : HasForm(f, b)}

FilterPartition(g, files) ==
    /\ \A b \in Prefixes(files) \cup DOMAIN g.frames :
          /\ \A f \in Names(files) :
                f \in Members(g, b) <=>
                    (HasForm(f, b) /\ Cardinality(FilesOfBase(files, b)) >= 2)
          /\ Members(g, b) \subseteq Names(files)
          /\ b \in DOMAIN g.frames =>
                Len(g.frames[b]) = Cardinality(Members(g, b))
    /\ DOMAIN g.frames = Names(g.keys)

\* C9: for every directory listing the grouping function returns a mapping
\* that is exactly the filter and partition of the listing: a file is in the
\* group keyed b exactly when it is '<b>_<digits>.png' and at least two files
\* of the listing have the base b.
C9_GroupingIsFilterPartition ==
    pc = "grouped" => (~grouped.threw /\ FilterPartition(grouped, listing))

\* the part of C9 the code keeps: whenever the function returns, what it
\* returns is the filter and partition of the listing
GroupingIsFilterPartitionWhenReturned ==
    (pc = "grouped" /\ ~grouped.threw) => FilterPartition(grouped, listing)

\* C10 as stated: in every returned group the frame indexes are pairwise
\* distinct and strictly increasing.
C10_StrictlyIncreasing ==
    pc = "grouped" =>
        \A b \in DOMAIN grouped.frames :
            LET fr == grouped.frames[b]
            IN  /\ \A i \in 1..(Len(fr) - 1) : fr[i].frame < fr[i + 1].frame
                /\ \A i, j \in 1..Len(fr) : fr[i].frame = fr[j].frame => i = j

\* C10, amended: in every returned group the sequence is non-decreasing by
\* frame index and its members are pairwise distinct files (two of them may
\* carry the same index).
C10_NonDecreasing ==
    pc = "grouped" =>
        \A b \in DOMAIN grouped.frames :
            LET fr == grouped.frames[b]
            IN  /\ \A i \in 1..(Len(fr) - 1) : fr[i].frame <= fr[i + 1].frame
                /\ \A i, j \in 1..Len(fr) : fr[i].file = fr[j].file => i = j

\* C10: a returned group holds two files of the same index, listed after a
\* file of a greater index and sorted before it.
C10_Witness ==
    /\ pc = "grouped"
    /\ listing = <<"b_10.png", "a_1.png", "b_9.png", "a_01.png">>
    /\ "a" \in DOMAIN grouped.frames
    /\ "b" \in DOMAIN grouped.frames
    /\ grouped.frames["a"][1].frame = grouped.frames["a"][2].frame
    /\ grouped.frames["b"][1].file = "b_9.png"

\* one fixed order of a set of names: every listing of the same directory
\* content has the same canonical listing
RECURSIVE Canonical(_)
Canonical(S) ==
    IF S = {} THEN <<>>
    ELSE LET x == CHOOSE y \in S : TRUE IN <<x>> \o Canonical(S \ {x})

\* the grouping of the same directory content listed in its canonical order
Regrouped == GroupImagesByBaseName(InputDir(pipeline), Canonical(Names(listing)))

\* the frame records of the group keyed b
Records(g, b) == {g.frames[b][i] : i \in 1..Len(g.frames[b])}

\* the frame indexes of the group keyed b are pairwise distinct
DistinctIndexes(g, b) ==
    \A i, j \in 1..Len(g.frames[b]) :
        g.frames[b][i].frame = g.frames[b][j].frame => i = j

\* C11 as stated: grouping does not depend on the order of the listing. Every
\* listing gives the same set of keys and, for every key, the identical
\* ordered sequence of frame records as the canonical listing of the same
\* names, hence as every other permutation of it.
C11_OrderIndependent ==
    (pc = "grouped" /\ ~grouped.threw /\ ~Regrouped.threw) =>
        /\ Names(grouped.keys) = Names(Regrouped.keys)
        /\ \A b \in Names(grouped.keys) :
              grouped.frames[b] = Regrouped.frames[b]

\* C11, amended: for every listing the function throws exactly when it throws
\* on the canonical listing of the same names; when it returns, the set of
\* keys and, for every key, the set of frame records are the same, both
\* sequences are non-decreasing by frame index, and they are the identical
\* sequence whenever the frame indexes of the group are pairwise distinct.
C11_OrderIndependentUpToTies ==
    pc = "grouped" =>
        /\ grouped.threw = Regrouped.threw
        /\ ~grouped.threw =>
              /\ Names(grouped.keys) = Names(Regrouped.keys)
              /\ \A b \in Names(grouped.keys) :
                    /\ Records(grouped, b) = Records(Regrouped, b)
                    /\ Len(grouped.frames[b]) = Len(Regrouped.frames[b])
                    /\ \A i \in 1..(Len(grouped.frames[b]) - 1) :
                          grouped.frames[b][i].frame
                              <= grouped.frames[b][i + 1].frame
                    /\ DistinctIndexes(grouped, b) =>
                          grouped.frames[b] = Regrouped.frames[b]

\* C11: a listing that is the reverse of the canonical one, with its frames
\* in descending order, gives the groups of the canonical listing.
C11_Witness ==
    /\ pc = "grouped"
    /\ \A i \in 1..Len(listing) :
          listing[i] = Canonical(Names(listing))[Len(listing) + 1 - i]
    /\ Names(listing) = {"b_10.png", "b_9.png", "a_1.png", "a_0.png"}
    /\ Names(grouped.keys) = {"a", "b"}
    /\ grouped.frames["b"][1].file = "b_9.png"
    /\ grouped.frames["a"] = Regrouped.frames["a"]
    /\ grouped.frames["b"] = Regrouped.frames["b"]

\* C15: the grouping functions are total. For every listing they return
\* without raising, and a matching file whose base name is a property every
\* plain object inherits is grouped under that base name like any other: it
\* is a member of the group exactly when two files or more carry the base.
C15_GroupingTotal ==
    pc = "grouped" =>
        /\ ~grouped.threw
        /\ \A f \in Names(listing) :
              LET m == MatchFrame(f)
              IN  (ExtName(f) = ".png" /\ m.ok
                     /\ m.base \in ObjectPrototypeKeys) =>
                      (f \in Members(grouped, m.base) <=>
                          Cardinality(FilesOfBase(listing, m.base)) >= MinFrames)

\* the items the driver loop has handled
Handled == {i \in Item : attempts[i].outcome # "none"}

Succeeded == {i \in Item : attempts[i].outcome \in {"primary", "fallback"}}

Failed == {i \in Item : attempts[i].outcome = "failed"}

\* the counters agree with the items handled so far
CountersMatchHandled ==
    LoopEntered =>
        /\ Handled = 1..(IF tallied THEN idx ELSE idx - 1)
        /\ successCount + failCount = Cardinality(Handled)
        /\ successCount = Cardinality(Succeeded)
        /\ failCount = Cardinality(Failed)
        /\ \A i \in Handled :
              /\ attempts[i].outcome = "primary" => attempts[i].fallback = 0
              /\ attempts[i].outcome \in {"fallback", "failed"} =>
                    attempts[i].fallback = 1
        /\ tallied => successCount + failCount = Len(items)

\* a step handles at most one item, and the item it handles increments
\* exactly one of the two counters by one; no counter decreases
CountersStep ==
    /\ successCount' >= successCount
    /\ failCount' >= failCount
    /\ (successCount' + failCount') - (successCount + failCount) \in {0, 1}
    /\ LoopEntered =>
          \/ /\ Handled' = Handled
             /\ successCount' = successCount
             /\ failCount' = failCount
          \/ /\ Handled' = Handled \cup {idx}
             /\ idx \notin Handled
             /\ attempts'[idx].outcome \in {"primary", "fallback"} =>
                   (successCount' = successCount + 1 /\ failCount' = failCount)
             /\ attempts'[idx].outcome = "failed" =>
                   (failCount' = failCount + 1 /\ successCount' = successCount)

\* C13: in every driver loop successCount + failCount is the number of items
\* handled so far, each item increments exactly one counter exactly once
\* (success iff the primary or the fallback succeeded, failure iff both
\* failed), no counter ever decreases, and at the tally the sum is the size
\* of the batch.
C13_CountersTallyItems == [](CountersMatchHandled) /\ [][CountersStep]_vars

\* C13: a batch of three items or more was tallied with one item that succeeded
\* at the primary, one that succeeded at the fallback and one that failed.
C13_Witness ==
    /\ tallied
    /\ Len(items) >= 3
    /\ \E i, j, k \in Item :
          /\ attempts[i].outcome = "primary"
          /\ attempts[j].outcome = "fallback"
          /\ attempts[k].outcome = "failed"
    /\ successCount = Len(items) - 1
    /\ failCount = 1

\* the fallback invocation of item i has settled (resolved or rejected)
FallbackSettled(i) ==
    attempts[i].fallback >= 1 /\ attempts[i].outcome \in {"fallback", "failed"}

\* the temporary files of item i that are in the output directory
TmpFilesOf(i) == {f \in tmpFiles : f.item = i}

\* C12: every fallback invocation that wrote its manifest and has settled,
\* and whose file deletion did not fail, has left neither its manifest nor
\* its palette in the output directory.
C12_FallbackRemovesTempFiles ==
    \A i \in Item :
        (i \in wroteManifest /\ FallbackSettled(i) /\ i \notin unlinkFailed) =>
            TmpFilesOf(i) = {}

\* the part of C12 the code keeps: createTransparentGifWithFFmpeg however it
\* settles, and createGifWithFFmpeg when its palette pass succeeded
FallbackRemovesTempFilesAfterLastCommand ==
    \A i \in Item :
        (/\ i \in wroteManifest
         /\ FallbackSettled(i)
         /\ i \notin unlinkFailed
         /\ \/ pipeline = "transparentGif"
            \/ \E k \in 1..Len(commands) :
                  commands[k].item = i /\ commands[k].kind = "encode") =>
            TmpFilesOf(i) = {}

\* the commands the driver loop started for item i, in the order it started
\* them
CommandsOf(i) == LET IsOfItem(c) == c.item = i IN SelectSeq(commands, IsOfItem)

\* what the ImageMagick command runs, from the recorded path state alone
ProgramOfPathState ==
    IF imageMagickPath = Undefined THEN "magick" ELSE imageMagickPath

\* the values the probe resolves to when it finds a tool
NonNullTools == {"imagemagick", "imagemagick-convert", "imagemagick-path",
                 "ffmpeg"}

\* C14: the value the probe returned influences a run only through null
\* versus non-null. The loop is entered only with a non-null value, and the
\* commands of every item are a function of the recorded path state and of
\* the outcomes of the commands, in which the probe's value does not occur:
\* first the ImageMagick command, under the recorded path if one was recorded
\* and under the name 'magick' otherwise, then FFmpeg commands, and these
\* only after the ImageMagick command failed.
C14_CommandsIgnoreProbeValue ==
    LoopEntered =>
        /\ tool \in NonNullTools
        /\ \A k \in 1..Len(commands) : commands[k].item \in 1..idx
        /\ \A i \in 1..idx :
              LET cmds == CommandsOf(i)
              IN  /\ Len(cmds) >= 1
                  /\ cmds[1] = Proc("primary", i, ProgramOfPathState)
                  /\ \A k \in 2..Len(cmds) :
                        /\ cmds[k].kind # "primary"
                        /\ cmds[k].program = "ffmpeg"
                  /\ Len(cmds) >= 2 =>
                        (attempts[i].fallback = 1
                           /\ attempts[i].outcome # "primary")
                  /\ attempts[i].outcome = "primary" => Len(cmds) = 1

\* C14: the probe resolved to 'ffmpeg' with no path recorded, and an item was
\* attempted with 'magick' first and with FFmpeg after 'magick' failed.
C14_Witness ==
    /\ LoopEntered
    /\ tool = "ffmpeg"
    /\ imageMagickPath = Undefined
    /\ \E i \in 1..idx :
          /\ Len(CommandsOf(i)) >= 2
          /\ CommandsOf(i)[1].program = "magick"
          /\ CommandsOf(i)[2].program = "ffmpeg"
          /\ attempts[i].outcome = "fallback"

====
